---- MODULE Spec2Model ----
(***************************************************************************)
(* A model of scripts/simple-server.py: an HTTPServer on port 1080 whose   *)
(* handler, SimpleHandler, logs every GET and POST request (path, method,  *)
(* headers, body) through logging.info and answers 200 "OK".               *)
(*                                                                         *)
(* The server is one thread of control: serve_forever accepts a            *)
(* connection, runs the handler to its end (or to the exception it         *)
(* raises) and only then accepts the next.  The handler's locals are the   *)
(* variables command, path, headers, content_length, raw and body; the     *)
(* socket of the connection being handled is rfile (bytes received and not *)
(* yet read) and peer (what the client has done to the connection).        *)
(***************************************************************************)
EXTENDS Integers, Sequences, FiniteSets, TLC

\* Bounds of the model.
MaxConns == 2      \* connections the clients open in one run
MaxBody == 2       \* bytes one client sends after its header block

Conns == 1..MaxConns

\* Inputs: request lines and header blocks the clients send.
Methods == {"GET", "POST", "PUT"}
Paths == {"/echo"}
\* Header values are strings, modelled as sequences of characters.
ClValues == { <<"0">>, <<"2">>, <<"-", "1">>, <<"-", "2">>, <<"x">> }
HostHeader == <<"Host", <<"x">>>>
HeaderBlocks ==
    { <<>>, <<HostHeader, <<"Content-Length", <<"1", " ">>>>>> }
      \cup { <<<<"Content-Length", v>>>> : v \in ClValues }
\* What a client sends after its header block is the beginning of one of
\* these byte strings.  104 is "h"; 195 169 is the UTF-8 encoding of U+00E9;
\* 195 or 169 on its own is not valid UTF-8.
Payloads == { <<104, 195, 169>>, <<195, 169, 104>> }
Bytes == { p[i] : p \in Payloads, i \in 1..3 }
IsPrefix(s, t) == Len(s) <= Len(t) /\ s = SubSeq(t, 1, Len(s))

Min(a, b) == IF a < b THEN a ELSE b
Take(s, n) == SubSeq(s, 1, Min(n, Len(s)))
Drop(s, n) == SubSeq(s, Min(n, Len(s)) + 1, Len(s))

(***************************************************************************)
(* self.headers.get(name, default): the value of the first header called   *)
(* name, or the default when there is none.                                *)
(***************************************************************************)
RECURSIVE HeaderGet(_, _)
HeaderGet(hs, name) ==
    IF hs = <<>> THEN [found |-> FALSE, value |-> <<>>]
    ELSE IF Head(hs)[1] = name THEN [found |-> TRUE, value |-> Head(hs)[2]]
    ELSE HeaderGet(Tail(hs), name)

(***************************************************************************)
(* Python's int(str): surrounding whitespace is stripped, one sign is      *)
(* allowed, and at least one decimal digit must follow; anything else      *)
(* raises ValueError (ok = FALSE).  The inputs hold no "_" between digits. *)
(***************************************************************************)
DigitChars == {"0", "1", "2", "3", "4", "5", "6", "7", "8", "9"}
DigitVal(ch) ==
    CASE ch = "0" -> 0 [] ch = "1" -> 1 [] ch = "2" -> 2 [] ch = "3" -> 3
      [] ch = "4" -> 4 [] ch = "5" -> 5 [] ch = "6" -> 6 [] ch = "7" -> 7
      [] ch = "8" -> 8 [] ch = "9" -> 9

RECURSIVE LStrip(_)
LStrip(s) == IF s # <<>> /\ Head(s) = " " THEN LStrip(Tail(s)) ELSE s

RECURSIVE RStrip(_)
RStrip(s) ==
    IF s # <<>> /\ s[Len(s)] = " " THEN RStrip(SubSeq(s, 1, Len(s) - 1)) ELSE s

RECURSIVE DigitsValue(_, _)
DigitsValue(s, acc) ==
    IF s = <<>> THEN acc ELSE DigitsValue(Tail(s), 10 * acc + DigitVal(Head(s)))

PyInt(s) ==
    LET t == RStrip(LStrip(s))
        signed == t # <<>> /\ Head(t) \in {"-", "+"}
        d == IF signed THEN Tail(t) ELSE t
        valid == d # <<>> /\ \A i \in 1..Len(d) : d[i] \in DigitChars
    IN  IF ~valid THEN [ok |-> FALSE, val |-> 0]
        ELSE [ok |-> TRUE,
              val |-> IF signed /\ Head(t) = "-" THEN 0 - DigitsValue(d, 0)
                      ELSE DigitsValue(d, 0)]

\* int(self.headers.get('Content-Length', 0)): int(0) is 0.
ContentLengthOf(hs) ==
    LET h == HeaderGet(hs, "Content-Length")
    IN  IF h.found THEN PyInt(h.value) ELSE [ok |-> TRUE, val |-> 0]

(***************************************************************************)
(* bytes.decode('utf-8'), for one- and two-byte sequences (the alphabet    *)
(* Bytes holds no lead byte of a longer one): the code points, or          *)
(* UnicodeDecodeError (ok = FALSE) on a stray continuation byte, a         *)
(* truncated sequence or an overlong lead.                                 *)
(***************************************************************************)
RECURSIVE Utf8Decode(_)
Utf8Decode(bs) ==
    IF bs = <<>> THEN [ok |-> TRUE, text |-> <<>>]
    ELSE IF Head(bs) < 128 THEN
        LET r == Utf8Decode(Tail(bs))
        IN  [ok |-> r.ok, text |-> IF r.ok THEN <<Head(bs)>> \o r.text ELSE <<>>]
    ELSE IF Head(bs) >= 194 /\ Head(bs) <= 223 /\ Len(bs) >= 2
            /\ bs[2] >= 128 /\ bs[2] <= 191 THEN
        LET r == Utf8Decode(Tail(Tail(bs)))
            cp == (Head(bs) - 192) * 64 + (bs[2] - 128)
        IN  [ok |-> r.ok, text |-> IF r.ok THEN <<cp>> \o r.text ELSE <<>>]
    ELSE [ok |-> FALSE, text |-> <<>>]

(***************************************************************************)
(* self.rfile.read(n) on the buffered socket reader.  n < -1 raises        *)
(* ValueError; n = -1 reads to end of stream; n >= 0 returns n bytes, or   *)
(* fewer when the stream ends first.  The call blocks while the bytes it   *)
(* waits for have not arrived and the client has not ended the stream.     *)
(***************************************************************************)
ReadRaises(n) == n < -1
ReadBlocks(n, buf, open) ==
    /\ ~ReadRaises(n)
    /\ open
    /\ (n = -1 \/ Len(buf) < n)
\* A read that hands over everything buffered, whatever size was asked for.
ReadCountAll(n, buf) == Len(buf)
ReadCount(n, buf) == IF n = -1 THEN Len(buf) ELSE Min(n, Len(buf))

(***************************************************************************)
(* State.                                                                  *)
(*   st[c]        connection c: "new" (not opened), "queued" (in the       *)
(*                listen queue), "handling" (its handler is running),      *)
(*                "closed"                                                 *)
(*   backlog      the listen queue, in arrival order                       *)
(*   pc           where the server's thread is                             *)
(*   cur          the connection the thread handles, or handled last       *)
(*   command, path, headers   the parsed request (self.command, ...)       *)
(*   content_length, raw, body   locals of log_request_info                *)
(*   rfile, peer  the socket: bytes received and unread; "open", or        *)
(*                "closed" once the client has ended the connection (shut  *)
(*                down its sending side, closed or reset it)               *)
(*   log          the records logging.info has emitted; req tags each      *)
(*                record with the connection it was emitted for            *)
(*   resp[c]      the response written to connection c                     *)
(* History, for stating properties: sent (every byte the client has sent),    *)
(* reads (rfile.read calls made), log0 (Len(log) when cur was accepted),   *)
(* result[c], failedAt[c] (the call that raised in c's handler), failures  *)
(* (handlers that raised so far).                                          *)
(***************************************************************************)
VARIABLES st, backlog, pc, cur, command, path, headers, content_length, raw,
          body, rfile, peer, sent, reads, log, log0, resp, result, failedAt,
          failures

request == <<command, path, headers>>
locals == <<content_length, raw, body>>
sock == <<rfile, peer>>
conns == <<st, backlog, cur>>
outcome == <<resp, result, failures>>
vars == <<st, backlog, pc, cur, command, path, headers, content_length, raw,
          body, rfile, peer, sent, reads, log, log0, resp, result, failedAt,
          failures>>

NoResponse == [status |-> 0, body |-> ""]
\* send_response(200); end_headers(); wfile.write(b"OK")
OkResponse == [status |-> 200, body |-> "OK"]
\* BaseHTTPRequestHandler's answer when the handler has no do_<command>.
UnsupportedResponse == [status |-> 501, body |-> "Unsupported method"]

\* A handler class that also defined a do_PUT.
HandlerMethodsWithPut == {"GET", "POST", "PUT"}
\* The do_<command> methods SimpleHandler defines.
HandlerMethods == {"GET", "POST"}

\* The four logging.info calls of log_request_info, in order.
LogRecords(c, p, m, hs, b) ==
    << [req |-> c, level |-> "INFO", field |-> "Path", text |-> p],
       [req |-> c, level |-> "INFO", field |-> "Method", text |-> m],
       [req |-> c, level |-> "INFO", field |-> "Headers", text |-> hs],
       [req |-> c, level |-> "INFO", field |-> "Body", text |-> b] >>

\* A handler that called rfile.read whatever the length.
ShouldReadAlways(n) == TRUE
\* "if content_length": the body is read when the length is truthy.
ShouldRead(n) == n # 0

Init ==
    /\ st = [c \in Conns |-> "new"]
    /\ backlog = <<>>
    /\ pc = "accept"
    /\ cur = 0
    /\ command = ""
    /\ path = ""
    /\ headers = <<>>
    /\ content_length = 0
    /\ raw = <<>>
    /\ body = <<>>
    /\ rfile = <<>>
    /\ peer = "open"
    /\ sent = <<>>
    /\ reads = 0
    /\ log = <<>>
    /\ log0 = 0
    /\ resp = [c \in Conns |-> NoResponse]
    /\ result = [c \in Conns |-> "none"]
    /\ failedAt = [c \in Conns |-> "none"]
    /\ failures = 0

(***************************************************************************)
(* Clients.  Connections are opened in the order of their numbers.  What a *)
(* client does to a connection before its handler runs is seen by the      *)
(* handler only when it reads, so the client's steps are taken while the   *)
(* handler is at line 7 of log_request_info, where the body is read.          *)
(***************************************************************************)
ClientConnect(c) ==
    /\ st[c] = "new"
    /\ \A d \in Conns : d < c => st[d] # "new"
    /\ st' = [st EXCEPT ![c] = "queued"]
    /\ backlog' = Append(backlog, c)
    /\ UNCHANGED <<pc, cur, request, locals, sock, sent, reads, log, log0,
                   outcome, failedAt>>

ClientActive == pc = "read_body"

ClientSend(b) ==
    /\ ClientActive
    /\ peer = "open"
    /\ Len(sent) < MaxBody
    /\ \E p \in Payloads : IsPrefix(Append(sent, b), p)
    /\ rfile' = Append(rfile, b)
    /\ sent' = Append(sent, b)
    /\ UNCHANGED <<conns, pc, request, locals, peer, reads, log, log0,
                   outcome, failedAt>>

ClientClose ==
    /\ ClientActive
    /\ peer = "open"
    /\ peer' = "closed"
    /\ UNCHANGED <<conns, pc, request, locals, rfile, sent, reads, log, log0,
                   outcome, failedAt>>

(***************************************************************************)
(* The server.  HTTPServer handles a connection in the thread that         *)
(* accepted it: serve_forever takes the head of the listen queue and runs  *)
(* SimpleHandler on it; it is back at accept when the handler has returned *)
(* or raised.                                                              *)
(***************************************************************************)
\* A threading server: a connection is accepted, and its handler started,
\* while the handler of an earlier one is still running.
serve_forever_threading ==
    /\ backlog # <<>>
    /\ st' = [st EXCEPT ![Head(backlog)] = "handling"]
    /\ backlog' = Tail(backlog)
    /\ cur' = Head(backlog)
    /\ pc' = "handle"
    /\ log0' = Len(log)
    /\ UNCHANGED <<request, locals, sock, sent, reads, log, outcome, failedAt>>

serve_forever ==
    /\ pc = "accept"
    /\ backlog # <<>>
    /\ st' = [st EXCEPT ![Head(backlog)] = "handling"]
    /\ backlog' = Tail(backlog)
    /\ cur' = Head(backlog)
    /\ pc' = "handle"
    /\ command' = ""
    /\ path' = ""
    /\ headers' = <<>>
    /\ content_length' = 0
    /\ raw' = <<>>
    /\ body' = <<>>
    /\ rfile' = <<>>
    /\ peer' = "open"
    /\ sent' = <<>>
    /\ reads' = 0
    /\ log0' = Len(log)
    /\ UNCHANGED <<log, outcome, failedAt>>

\* The handler ends and its connection is closed (HTTP/1.0: no keep-alive);
\* the socket and what it still held are gone.  The request and the locals
\* of log_request_info stay as they were until the next handler starts.
Finish(res, response) ==
    /\ st' = [st EXCEPT ![cur] = "closed"]
    /\ result' = [result EXCEPT ![cur] = res]
    /\ resp' = [resp EXCEPT ![cur] = response]
    /\ rfile' = <<>>
    /\ peer' = "open"
    /\ sent' = <<>>
    /\ pc' = "accept"

\* handle_one_request: the request line and the headers are parsed and the
\* request goes to do_<command>, here to do_GET or do_POST, whose first
\* statement calls log_request_info.
handle_one_request ==
    /\ pc = "handle"
    /\ \E m \in Methods, p \in Paths, hs \in HeaderBlocks :
          /\ m \in HandlerMethods
          /\ command' = m
          /\ path' = p
          /\ headers' = hs
    /\ pc' = "content_length"
    /\ UNCHANGED <<conns, locals, sock, sent, reads, log, log0, outcome,
                   failedAt>>

\* A command with no do_<command>: the base class answers 501 itself and
\* no method of SimpleHandler runs.
unsupported_method ==
    /\ pc = "handle"
    /\ \E m \in Methods, p \in Paths, hs \in HeaderBlocks :
          /\ m \notin HandlerMethods
          /\ command' = m
          /\ path' = p
          /\ headers' = hs
    /\ Finish("unsupported", UnsupportedResponse)
    /\ UNCHANGED <<backlog, cur, locals, reads, log, log0, failures, failedAt>>

Raise(at) ==
    /\ pc' = "raised"
    /\ failedAt' = [failedAt EXCEPT ![cur] = at]

\* log_request_info, line 6.
parse_content_length ==
    /\ pc = "content_length"
    /\ LET r == ContentLengthOf(headers)
       IN  IF r.ok
           THEN /\ content_length' = r.val
                /\ pc' = "read_body"
                /\ UNCHANGED failedAt
           ELSE /\ Raise("int")
                /\ UNCHANGED content_length
    /\ UNCHANGED <<conns, request, raw, body, sock, sent, reads, log, log0,
                   outcome>>

\* log_request_info, line 7, with a falsy content_length: body = ''.
no_body ==
    /\ pc = "read_body"
    /\ ~ShouldRead(content_length)
    /\ body' = <<>>
    /\ pc' = "log"
    /\ UNCHANGED <<conns, request, content_length, raw, sock, sent, reads,
                   log, log0, outcome, failedAt>>

\* A log_request_info that logged the path before it read the body.
read_body_after_path ==
    /\ pc = "read_body"
    /\ ShouldRead(content_length)
    /\ ~ReadRaises(content_length)
    /\ ~ReadBlocks(content_length, rfile, peer = "open")
    /\ log' = Append(log, [req |-> cur, level |-> "INFO", field |-> "Path",
                           text |-> path])
    /\ raw' = Take(rfile, ReadCount(content_length, rfile))
    /\ rfile' = Drop(rfile, ReadCount(content_length, rfile))
    /\ reads' = reads + 1
    /\ IF Utf8Decode(raw').ok
       THEN /\ body' = Utf8Decode(raw').text
            /\ pc' = "log"
            /\ UNCHANGED failedAt
       ELSE /\ Raise("decode")
            /\ UNCHANGED body
    /\ UNCHANGED <<conns, request, content_length, peer, sent, log0, outcome>>

\* log_request_info, line 7: self.rfile.read(content_length) returns and
\* .decode('utf-8') decodes what it returned, or raises UnicodeDecodeError.
read_body ==
    /\ pc = "read_body"
    /\ ShouldRead(content_length)
    /\ ~ReadRaises(content_length)
    /\ ~ReadBlocks(content_length, rfile, peer = "open")
    /\ raw' = Take(rfile, ReadCount(content_length, rfile))
    /\ rfile' = Drop(rfile, ReadCount(content_length, rfile))
    /\ reads' = reads + 1
    /\ IF Utf8Decode(raw').ok
       THEN /\ body' = Utf8Decode(raw').text
            /\ pc' = "log"
            /\ UNCHANGED failedAt
       ELSE /\ Raise("decode")
            /\ UNCHANGED body
    /\ UNCHANGED <<conns, request, content_length, peer, sent, log, log0,
                   outcome>>

\* log_request_info, line 7: self.rfile.read(content_length) raises,
\* ValueError on a length below -1, ConnectionResetError when the client
\* has reset the connection.
read_body_raises ==
    /\ pc = "read_body"
    /\ ShouldRead(content_length)
    /\ ReadRaises(content_length) \/ peer = "closed"
    /\ reads' = reads + 1
    /\ Raise("read")
    /\ UNCHANGED <<conns, request, locals, sock, sent, log, log0, outcome>>

\* log_request_info, lines 8 to 11.
log_request_info ==
    /\ pc = "log"
    /\ log' = log \o LogRecords(cur, path, command, headers, body)
    /\ pc' = "respond"
    /\ UNCHANGED <<conns, request, locals, sock, sent, reads, log0, outcome,
                   failedAt>>

\* send_response(200); end_headers(); wfile.write(b"OK").  When the client
\* has ended the connection the writes either still go through or raise
\* BrokenPipeError.
SendOk(m) ==
    /\ pc = "respond"
    /\ command = m
    /\ \/ /\ Finish("ok", OkResponse)
          /\ UNCHANGED <<failedAt, failures>>
       \/ /\ peer = "closed"
          /\ Raise("write")
          /\ UNCHANGED <<st, outcome, sock, sent>>
    /\ UNCHANGED <<backlog, cur, request, locals, reads, log, log0>>

do_GET == SendOk("GET")

do_POST == SendOk("POST")

\* A server whose loop the handler's exception ends.
handle_error_exits ==
    /\ pc = "raised"
    /\ pc' = "exited"
    /\ result' = [result EXCEPT ![cur] = "failed"]
    /\ failures' = failures + 1
    /\ UNCHANGED <<conns, request, locals, sock, sent, reads, log, log0, resp,
                   failedAt>>

\* The handler raised: socketserver reports the exception (handle_error),
\* closes the connection (shutdown_request) and the loop goes on.
handle_error ==
    /\ pc = "raised"
    /\ Finish("failed", NoResponse)
    /\ failures' = failures + 1
    /\ UNCHANGED <<backlog, cur, request, locals, reads, log, log0, failedAt>>

Next ==
    \/ \E c \in Conns : ClientConnect(c)
    \/ \E b \in Bytes : ClientSend(b)
    \/ ClientClose
    \/ serve_forever
    \/ handle_one_request
    \/ unsupported_method
    \/ parse_content_length
    \/ no_body
    \/ read_body
    \/ read_body_raises
    \/ log_request_info
    \/ do_GET
    \/ do_POST
    \/ handle_error

Spec == Init /\ [][Next]_vars

(***************************************************************************)
(* Properties.                                                             *)
(***************************************************************************)
RecordsOf(c) == SelectSeq(log, LAMBDA e : e.req = c)
FieldsOf(c) == [i \in 1..Len(RecordsOf(c)) |-> RecordsOf(c)[i].field]
BodyLogged(c, b) ==
    \E i \in 1..Len(RecordsOf(c)) :
        /\ RecordsOf(c)[i].field = "Body"
        /\ RecordsOf(c)[i].text = b
\* The handler of c was a do_GET or a do_POST and has ended.
Served(c) == result[c] \in {"ok", "failed"}
\* The thread is between two connections and has handled cur.
LastDone == pc = "accept" /\ cur # 0
\* rfile.read has returned in the handler of cur.
ReadReturned ==
    /\ cur # 0
    /\ pc \in {"log", "respond", "raised"}
    /\ reads = 1
    /\ failedAt[cur] # "read"

\* C1: every GET or POST request the server has handled, whatever its path,
\* headers and body, was answered with status 200 and the body OK.
C1_AlwaysOk == \A c \in Conns : Served(c) => resp[c] = OkResponse

\* C2: every GET or POST request the server has handled left exactly one
\* INFO record of the four fields Path, Method, Headers, Body, in this order,
\* and between two requests the log holds one such record per request.
C2_OneRecordPerRequest ==
    /\ \A c \in Conns :
          Served(c) =>
            /\ FieldsOf(c) = <<"Path", "Method", "Headers", "Body">>
            /\ \A i \in 1..Len(RecordsOf(c)) : RecordsOf(c)[i].level = "INFO"
    /\ pc = "accept" =>
          Len(log) = 4 * Cardinality({c \in Conns : Served(c)})

\* C3: a GET or POST whose Content-Length does not parse as an integer is
\* handled as with Content-Length 0: nothing is read, an empty Body is logged
\* and 200 OK is sent.
C3_UnparsableIsZero ==
    (LastDone /\ command \in HandlerMethods /\ ~ContentLengthOf(headers).ok) =>
        /\ reads = 0
        /\ BodyLogged(cur, <<>>)
        /\ result[cur] = "ok"
        /\ resp[cur] = OkResponse

\* C4: for a POST with Content-Length N > 0 of which the client has sent at
\* least N body bytes, the read takes exactly the first N bytes and leaves
\* every later byte in the stream, and the Body that is logged is the
\* decoding of those N bytes.
C4_ContentLengthHonored ==
    (ReadReturned /\ command = "POST" /\ content_length > 0
       /\ Len(sent) >= content_length) =>
        /\ raw = SubSeq(sent, 1, content_length)
        /\ rfile = SubSeq(sent, content_length + 1, Len(sent))
        /\ pc \in {"log", "respond"} =>
              /\ Utf8Decode(SubSeq(sent, 1, content_length)).ok
              /\ body = Utf8Decode(SubSeq(sent, 1, content_length)).text
        /\ pc = "respond" =>
              /\ BodyLogged(cur, Utf8Decode(SubSeq(sent, 1, content_length)).text)
              /\ log[Len(log)].field = "Body"
              /\ Len(log) = log0 + 4
        /\ pc = "raised" /\ failedAt[cur] = "decode" =>
              ~Utf8Decode(SubSeq(sent, 1, content_length)).ok

C4_Witness ==
    /\ pc = "respond"
    /\ command = "POST"
    /\ content_length = 1
    /\ Len(sent) > content_length
    /\ raw = <<104>>
    /\ body = <<104>>
    /\ rfile = <<195>>
    /\ BodyLogged(cur, <<104>>)

\* C5: a request with no Content-Length header, or with Content-Length 0,
\* makes no read on the body stream and is never waiting for body bytes; what
\* the client has sent stays in the stream, the Body logged is empty and the
\* handler goes on to the response.
NoLength ==
    /\ cur # 0
    /\ command \in HandlerMethods
    /\ pc # "content_length"
    /\ ContentLengthOf(headers) = [ok |-> TRUE, val |-> 0]
C5_NoLengthNoRead ==
    NoLength =>
        /\ reads = 0
        /\ raw = <<>>
        /\ pc = "read_body" => ENABLED no_body
        /\ pc \in {"read_body", "log", "respond", "raised"} => rfile = sent
        /\ pc \in {"log", "respond"} => body = <<>>
        /\ pc = "respond" => BodyLogged(cur, <<>>)
        /\ failedAt[cur] \in {"none", "write"}
        /\ LastDone /\ result[cur] = "ok" =>
              BodyLogged(cur, <<>>) /\ resp[cur] = OkResponse

C5_Witness ==
    /\ NoLength
    /\ ~HeaderGet(headers, "Content-Length").found
    /\ pc = "respond"
    /\ sent # <<>>
    /\ rfile = sent
    /\ BodyLogged(cur, <<>>)

\* C6: at most one request is in flight: a connection's handler runs only
\* while the thread is not at accept, it is the handler of cur, and every
\* other connection is unopened, waiting in the listen queue or closed.
InFlight == {c \in Conns : st[c] = "handling"}
C6_OneInFlight ==
    /\ Cardinality(InFlight) <= 1
    /\ pc = "accept" => InFlight = {}
    /\ pc # "accept" => InFlight = {cur}
    /\ \A c \in Conns :
          st[c] \in {"new", "queued"} =>
              result[c] = "none" /\ resp[c] = NoResponse /\ RecordsOf(c) = <<>>

C6_Witness ==
    /\ pc = "read_body"
    /\ \E c, d \in Conns : st[c] = "handling" /\ st[d] = "queued"

\* A request is well formed when its Content-Length is absent or a number
\* that is not negative, the bytes it announces decode, and the client stays.
WellFormed ==
    /\ ContentLengthOf(headers).ok
    /\ ContentLengthOf(headers).val >= 0
    /\ peer = "open"
    /\ Utf8Decode(Take(sent, ContentLengthOf(headers).val)).ok

\* C7: a handler that fails does not end the server: the failed connection
\* is closed and the thread returns to accept, where it takes the next
\* connection; a well-formed GET or POST handled after a failure does not
\* fail, and when it is done it has been logged and answered 200 OK.
C7_FailureKeepsServing ==
    /\ pc # "exited"
    /\ \A c \in Conns :
          result[c] = "failed" =>
              st[c] = "closed" /\ (c = cur => pc = "accept")
    /\ (failures > 0 /\ pc = "accept" /\ backlog # <<>>) => ENABLED serve_forever
    /\ (failures > 0 /\ pc = "raised") => ~WellFormed
    /\ (failures > 0 /\ LastDone /\ result[cur] = "ok") =>
          /\ resp[cur] = OkResponse
          /\ FieldsOf(cur) = <<"Path", "Method", "Headers", "Body">>

C7_Witness ==
    /\ LastDone
    /\ failures > 0
    /\ result[cur] = "ok"
    /\ resp[cur] = OkResponse
    /\ \E c \in Conns : c # cur /\ result[c] = "failed"
    /\ FieldsOf(cur) = <<"Path", "Method", "Headers", "Body">>

\* C8: a request whose handler failed while the body was read or decoded has
\* no log entry at all, the log is as long as it was when the request was
\* accepted, and the request is not taken up again.
C8_NoPartialRecord ==
    \A c \in Conns :
        failedAt[c] \in {"read", "decode"} =>
            /\ RecordsOf(c) = <<>>
            /\ st[c] \in {"handling", "closed"}
            /\ \A i \in 1..Len(backlog) : backlog[i] # c
            /\ c = cur => pc \in {"raised", "accept"} /\ Len(log) = log0 /\ reads = 1
            /\ st[c] = "closed" => result[c] = "failed" /\ resp[c] = NoResponse

C8_Witness ==
    /\ LastDone
    /\ failedAt[cur] = "decode"
    /\ result[cur] = "failed"
    /\ log0 > 0
    /\ Len(log) = log0

\* C9: a request whose method is neither GET nor POST never enters
\* log_request_info: it leaves no log record, gets the base class's 501 and
\* not the handler's 200 OK, and the thread is back at accept.
C9_UnsupportedMethod ==
    (cur # 0 /\ command \notin {"", "GET", "POST"}) =>
        /\ pc = "accept"
        /\ RecordsOf(cur) = <<>>
        /\ Len(log) = log0
        /\ reads = 0
        /\ result[cur] = "unsupported"
        /\ resp[cur] = UnsupportedResponse
        /\ resp[cur] # OkResponse
        /\ backlog # <<>> => ENABLED serve_forever

C9_Witness ==
    /\ LastDone
    /\ command = "PUT"
    /\ result[cur] = "unsupported"
    /\ \E c \in Conns : c # cur /\ result[c] = "ok"

\* C10: the handler reads from the body stream only when the parsed
\* Content-Length is greater than 0; with 0 or a negative value it reads
\* nothing, and the Body it logs is empty.
C10_ReadsOnlyWhenPositive ==
    /\ reads > 0 => content_length > 0
    /\ (pc \in {"log", "respond"} /\ content_length <= 0) =>
          body = <<>> /\ rfile = sent

====
